---- MODULE Spec2Model ----
(***************************************************************************)
(* Model of walkoff/executiondb/schemas.py: the marshmallow (2.x) schemas  *)
(* that load nested workflow documents into execution elements and dump    *)
(* elements back to documents.                                             *)
(*                                                                         *)
(* Documents are JSON values (tagged records).  An error map is a set of   *)
(* entries [path, msg]: marshmallow's nested error dictionaries flattened, *)
(* the path being the chain of dictionary keys that leads to a message.    *)
(* load runs in marshmallow's non-strict mode (schemas.py reads            *)
(* objs.errors): errors are returned, not raised.                          *)
(***************************************************************************)
EXTENDS Integers, Sequences, FiniteSets, TLC

VARIABLES store,   \* the session: <<type, id>> -> stored instance
          pc,      \* "idle", "loading" or "returned"
          op,      \* the entry point of the last call
          input,   \* its argument (a document or an element)
          result,  \* what it returned
          todo,    \* the calls of load still to run, innermost first
          done     \* path -> what the finished nested calls returned

vars == <<store, pc, op, input, result, todo, done>>

(***************************************************************************)
(* JSON values                                                             *)
(***************************************************************************)
JNull == [t |-> "null"]
JStr(s) == [t |-> "str", s |-> s]
JInt(n) == [t |-> "int", n |-> n]
JBool(b) == [t |-> "bool", b |-> b]
JList(xs) == [t |-> "list", xs |-> xs]
JMap(m) == [t |-> "map", m |-> m]

EmptyMap == <<>>

\* Python's bool(v)
Truthy(v) ==
    CASE v.t = "null" -> FALSE
      [] v.t = "str"  -> v.s # ""
      [] v.t = "int"  -> v.n # 0
      [] v.t = "bool" -> v.b
      [] v.t = "list" -> v.xs # <<>>
      [] v.t = "map"  -> DOMAIN v.m # {}

(***************************************************************************)
(* Error maps                                                              *)
(***************************************************************************)
Err(path, msg) == [path |-> path, msg |-> msg]

\* errors[key] = inner: the inner map nested under key
Under(key, E) == {Err(<<key>> \o e.path, e.msg) : e \in E}

Paths(E) == {e.path : e \in E}

MsgRequired == "Missing data for required field."
MsgNull == "Field may not be null."
MsgString == "Not a valid string."
MsgInteger == "Not a valid integer."
MsgBoolean == "Not a valid boolean."
MsgList == "Not a valid list."
MsgChoice == "Not a valid choice."
MsgExclusive == "Arguments must have either a value or a reference."

\* the keys marshmallow gives the items of a many=True load
IdxKey(i) == CASE i = 1 -> "0" [] i = 2 -> "1" [] i = 3 -> "2" [] OTHER -> "3"

(***************************************************************************)
(* Field coercion (marshmallow Field.deserialize): a field that is absent  *)
(* is skipped unless required; null is rejected unless the field allows    *)
(* it; a value of the wrong type is rejected.  A rejected field leaves no  *)
(* key in the decoded data.                                                *)
(***************************************************************************)
TypeOk(kind, v) ==
    CASE kind = "raw"  -> TRUE
      [] kind = "str"  -> v.t = "str"
      [] kind = "int"  -> v.t = "int"
      [] kind = "bool" -> v.t = "bool"
      [] kind = "list" -> v.t = "list"

TypeMsg(kind) ==
    CASE kind = "str"  -> MsgString
      [] kind = "int"  -> MsgInteger
      [] kind = "bool" -> MsgBoolean
      [] kind = "list" -> MsgList
      [] OTHER -> MsgString

Decoded(data, errs) == [data |-> data, errs |-> errs]

Field(doc, key, kind, required, allowNone) ==
    IF key \notin DOMAIN doc
    THEN IF required THEN Decoded(EmptyMap, {Err(<<key>>, MsgRequired)})
                     ELSE Decoded(EmptyMap, {})
    ELSE IF doc[key] = JNull
    THEN IF allowNone THEN Decoded(key :> JNull, {})
                      ELSE Decoded(EmptyMap, {Err(<<key>>, MsgNull)})
    ELSE IF TypeOk(kind, doc[key])
    THEN Decoded(key :> doc[key], {})
    ELSE Decoded(EmptyMap, {Err(<<key>>, TypeMsg(kind))})

Both(a, b) == Decoded(a.data @@ b.data, a.errs \cup b.errs)

(***************************************************************************)
(* Elements and the session                                                *)
(***************************************************************************)
StoreKey(type, id) == <<type, id>>

\* ModelSchema.get_instance: the record with the document's primary key
HasInstance(type, data, st) ==
    "id" \in DOMAIN data /\ StoreKey(type, data["id"]) \in DOMAIN st

\* setattr(instance, key, value) for every decoded key
SetAttrs(obj, data) ==
    [k \in DOMAIN obj |-> IF k \in DOMAIN data THEN data[k] ELSE obj[k]]

Without(data, keys) == [k \in DOMAIN data \ keys |-> data[k]]


(***************************************************************************)
(* What a load returns: marshmallow's UnmarshalResult(data, errors), the   *)
(* session after the load, and two history sets: made (the instances the   *)
(* load constructed or fetched) and checked (those validate() ran on).     *)
(***************************************************************************)
Loaded(data, errors, st, made, checked) ==
    [data |-> data, errors |-> errors, st |-> st, made |-> made, checked |-> checked]

(***************************************************************************)
(* Constructors of the element classes: the attributes a new instance has  *)
(* when the document gives none.                                           *)
(***************************************************************************)
DefaultPriority == 999
DefaultStatus == "Success"
DefaultOperator == "and"
valid_operators == {"and", "or", "xor"}

Defaults(type) ==
    CASE type = "Argument" ->
            [type |-> "Argument", id |-> JNull, name |-> JNull, value |-> JNull,
             reference |-> JNull, selection |-> JNull]
      [] type = "Position" ->
            [type |-> "Position", id |-> JNull, x |-> JNull, y |-> JNull]
      [] type = "Transform" ->
            [type |-> "Transform", id |-> JNull, app_name |-> JNull,
             action_name |-> JNull, arguments |-> <<>>]
      [] type = "Condition" ->
            [type |-> "Condition", id |-> JNull, app_name |-> JNull,
             action_name |-> JNull, arguments |-> <<>>, transforms |-> <<>>,
             is_negated |-> JBool(FALSE)]
      [] type = "ConditionalExpression" ->
            [type |-> "ConditionalExpression", id |-> JNull, conditions |-> <<>>,
             child_expressions |-> <<>>, operator |-> JStr(DefaultOperator),
             is_negated |-> JBool(FALSE)]
      [] type = "Branch" ->
            [type |-> "Branch", id |-> JNull, source_id |-> JNull,
             destination_id |-> JNull, condition |-> JNull,
             priority |-> JInt(DefaultPriority), status |-> JStr(DefaultStatus)]
      [] type = "Action" ->
            [type |-> "Action", id |-> JNull, app_name |-> JNull,
             action_name |-> JNull, arguments |-> <<>>, trigger |-> JNull,
             position |-> JNull]
      [] type = "Workflow" ->
            [type |-> "Workflow", id |-> JNull, name |-> JNull, actions |-> <<>>,
             branches |-> <<>>]
      [] type = "Playbook" ->
            [type |-> "Playbook", id |-> JNull, name |-> JNull, workflows |-> <<>>]

\* Argument.update_value_reference: a value replaces the reference, a
\* reference replaces the value
update_value_reference(inst, value, reference) ==
    IF value # JNull
    THEN [inst EXCEPT !.value = value, !.reference = JNull]
    ELSE IF Truthy(reference)
    THEN [inst EXCEPT !.reference = reference, !.value = JNull]
    ELSE inst

(***************************************************************************)
(* Element.validate(): raises InvalidExecutionElement(name, errors) for an *)
(* element whose action is not one the installed apps offer.               *)
(***************************************************************************)
UnknownAction == "nosuchaction"
OtherUnknownAction == "missingaction"
UnknownActions == {UnknownAction, OtherUnknownAction}

IsExecutionElement(obj) ==
    obj.type \in {"Transform", "Condition", "ConditionalExpression", "Branch",
                  "Action", "Workflow", "Playbook"}

Invalid(obj) ==
    /\ obj.type \in {"Transform", "Condition", "Action"}
    /\ obj.action_name \in {JStr(a) : a \in UnknownActions}

InvalidName(obj) == obj.action_name.s

InvalidErrors(obj) == {"Unknown action " \o obj.action_name.s}

(***************************************************************************)
(* ArgumentSchema                                                          *)
(***************************************************************************)
ArgumentFields(doc) ==
    Both(Field(doc, "id", "int", FALSE, FALSE),
    Both(Field(doc, "name", "str", TRUE, FALSE),
    Both(Field(doc, "value", "raw", FALSE, FALSE),
    Both(Field(doc, "reference", "str", FALSE, TRUE),
         Field(doc, "selection", "list", FALSE, FALSE)))))

\* validate_argument taking a present reference for a reference, whatever it holds
validate_argument_presence(data) ==
    LET has_value == "value" \in DOMAIN data
        has_reference == "reference" \in DOMAIN data
    IN  IF (~has_value /\ ~has_reference) \/ (has_value /\ has_reference)
        THEN {Err(<<"value">>, MsgExclusive)}
        ELSE {}

\* @validates_schema: reads the decoded data
validate_argument(data) ==
    LET has_value == "value" \in DOMAIN data
        has_reference == "reference" \in DOMAIN data /\ Truthy(data["reference"])
    IN  IF (~has_value /\ ~has_reference) \/ (has_value /\ has_reference)
        THEN {Err(<<"value">>, MsgExclusive)}
        ELSE {}

\* make_instance that never looks for a stored instance
make_instance_new(data, st) ==
    [obj |-> SetAttrs(Defaults("Argument"), data), st |-> st, fetched |-> FALSE]

\* @post_load
make_instance(data, st) ==
    IF HasInstance("Argument", data, st)
    THEN LET key == StoreKey("Argument", data["id"])
             value == IF "value" \in DOMAIN data THEN data["value"] ELSE JNull
             reference == IF "reference" \in DOMAIN data THEN data["reference"] ELSE JNull
             inst == update_value_reference(st[key], value, reference)
             obj == SetAttrs(inst, Without(data, {"value", "reference"}))
         IN  [obj |-> obj, st |-> [st EXCEPT ![key] = obj], fetched |-> TRUE]
    ELSE [obj |-> SetAttrs(Defaults("Argument"), data), st |-> st, fetched |-> FALSE]

(***************************************************************************)
(* The other schemas: their plain fields and their Nested fields           *)
(***************************************************************************)
MsgType == "Invalid type."

\* ActionableSchema
ActionableFields(doc) ==
    Both(Field(doc, "id", "str", FALSE, FALSE),
    Both(Field(doc, "app_name", "str", TRUE, FALSE),
         Field(doc, "action_name", "str", TRUE, FALSE)))

ConditionFields(doc) ==
    Both(ActionableFields(doc), Field(doc, "is_negated", "bool", FALSE, TRUE))

\* validate=OneOf(*valid_operators)
OneOf(key, choices, d) ==
    IF key \in DOMAIN d.data /\ d.data[key] # JNull /\ d.data[key].s \notin choices
    THEN Decoded(Without(d.data, {key}), d.errs \cup {Err(<<key>>, MsgChoice)})
    ELSE d

\* a field without missing=: an absent key stays absent
Missing_absent(doc, key, value) == doc

\* missing=value: the value an absent field is loaded with
Missing(doc, key, value) ==
    IF key \in DOMAIN doc THEN doc ELSE doc @@ (key :> value)

\* the operator field without its validator
OperatorField_unchecked(doc) ==
    Field(Missing(doc, "operator", JStr(DefaultOperator)), "operator", "str", FALSE, FALSE)

OperatorField(doc) ==
    OneOf("operator", valid_operators,
          Field(Missing(doc, "operator", JStr(DefaultOperator)), "operator", "str", FALSE, FALSE))

ConditionalExpressionFields(doc) ==
    Both(Field(doc, "id", "str", FALSE, FALSE),
    Both(OperatorField(doc),
         Field(doc, "is_negated", "bool", FALSE, TRUE)))

BranchFields(doc) ==
    Both(Field(doc, "id", "str", FALSE, FALSE),
    Both(Field(doc, "source_id", "str", TRUE, FALSE),
    Both(Field(doc, "destination_id", "str", TRUE, FALSE),
    Both(Field(doc, "priority", "int", FALSE, TRUE),
         Field(doc, "status", "str", FALSE, TRUE)))))

PositionFields(doc) ==
    Both(Field(doc, "id", "int", FALSE, FALSE),
    Both(Field(doc, "x", "int", TRUE, FALSE),
         Field(doc, "y", "int", TRUE, FALSE)))

NamedFields(doc) ==
    Both(Field(doc, "id", "str", FALSE, FALSE),
         Field(doc, "name", "str", TRUE, FALSE))

PlainFields(type, doc) ==
    CASE type = "Argument" -> ArgumentFields(doc)
      [] type = "Position" -> PositionFields(doc)
      [] type = "Transform" -> ActionableFields(doc)
      [] type = "Condition" -> ConditionFields(doc)
      [] type = "ConditionalExpression" -> ConditionalExpressionFields(doc)
      [] type = "Branch" -> BranchFields(doc)
      [] type = "Action" -> ActionableFields(doc)
      [] type = "Workflow" -> NamedFields(doc)
      [] type = "Playbook" -> NamedFields(doc)

Nested(key, schema, many) == [key |-> key, schema |-> schema, many |-> many]

NestedFields(type) ==
    CASE type = "Argument" -> <<>>
      [] type = "Position" -> <<>>
      [] type = "Transform" -> <<Nested("arguments", "Argument", TRUE)>>
      [] type = "Condition" ->
            <<Nested("arguments", "Argument", TRUE), Nested("transforms", "Transform", TRUE)>>
      [] type = "ConditionalExpression" ->
            <<Nested("conditions", "Condition", TRUE),
              Nested("child_expressions", "ConditionalExpression", TRUE)>>
      [] type = "Branch" -> <<Nested("condition", "ConditionalExpression", FALSE)>>
      [] type = "Action" ->
            <<Nested("arguments", "Argument", TRUE),
              Nested("trigger", "ConditionalExpression", FALSE),
              Nested("position", "Position", FALSE)>>
      [] type = "Workflow" ->
            <<Nested("actions", "Action", TRUE), Nested("branches", "Branch", TRUE)>>
      [] type = "Playbook" -> <<Nested("workflows", "Workflow", TRUE)>>

\* the @validates_schema hooks of a schema
SchemaValidators(type, data) ==
    IF type = "Argument" THEN validate_argument(data) ELSE {}

\* ModelSchema.make_instance, which ArgumentSchema overrides
MakeInstance(type, data, st) ==
    IF type = "Argument" THEN make_instance(data, st)
    ELSE IF HasInstance(type, data, st)
    THEN LET key == StoreKey(type, data["id"])
             obj == SetAttrs(st[key], data)
         IN  [obj |-> obj, st |-> [st EXCEPT ![key] = obj], fetched |-> TRUE]
    ELSE [obj |-> SetAttrs(Defaults(type), data), st |-> st, fetched |-> FALSE]

(***************************************************************************)
(* Loading.  Every call of a schema's load is one step; the calls of a     *)
(* document run in the order marshmallow makes them, a nested call         *)
(* finishing before the call that holds its field goes on, and dn holds    *)
(* what the finished nested calls returned, by the path of their field.    *)
(* cv says whether the element constructors run validate() themselves, in  *)
(* which case constructing an invalid element raises                       *)
(* InvalidExecutionElement inside the marshmallow load.                    *)
(***************************************************************************)

\* a loader that keeps the errors of the first nested field that fails only
NestedResult_first(acc, key, r) ==
    IF acc.errors # {} THEN acc
    ELSE Loaded(IF r.errors = {} \/ DOMAIN r.data # {}
                   THEN acc.data @@ (key :> r.data) ELSE acc.data,
                Under(key, r.errors), acc.st, acc.made \cup r.made,
                acc.checked \cup r.checked)

\* call_and_store: the nested errors go under the field's key, and a failed
\* nested load leaves its data if it has any (err.data or missing)
NestedResult(acc, key, r) ==
    Loaded(IF r.errors = {} \/ DOMAIN r.data # {}
              THEN acc.data @@ (key :> r.data) ELSE acc.data,
           acc.errors \cup Under(key, r.errors),
           acc.st, acc.made \cup r.made, acc.checked \cup r.checked)

NestedOk(doc, n) ==
    /\ n.key \in DOMAIN doc
    /\ doc[n.key] # JNull
    /\ doc[n.key].t = (IF n.many THEN "list" ELSE "map")

\* fields.Nested: the value is loaded by the nested schema
NestedValue(doc, n, acc, path, dn) ==
    IF n.key \notin DOMAIN doc THEN acc
    ELSE IF doc[n.key] = JNull
    THEN [acc EXCEPT !.errors = @ \cup {Err(<<n.key>>, MsgNull)}]
    ELSE IF ~NestedOk(doc, n)
    THEN [acc EXCEPT !.errors = @ \cup {Err(<<n.key>>, MsgType)}]
    ELSE NestedResult(acc, n.key, dn[path \o <<n.key>>])

RECURSIVE DecodeNested(_, _, _, _, _, _)
DecodeNested(type, doc, k, acc, path, dn) ==
    IF k > Len(NestedFields(type)) THEN acc
    ELSE DecodeNested(type, doc, k + 1,
                      NestedValue(doc, NestedFields(type)[k], acc, path, dn), path, dn)

PlainResult(f, st) == Loaded(f.data, f.errs, st, {}, {})

\* the schema validators run whether or not a field failed
WithValidators(type, d) ==
    [d EXCEPT !.errors = @ \cup SchemaValidators(type, d.data)]

\* Unmarshaller: one document decoded to a dictionary, then the validators
DecodeOne(type, doc, st, path, dn) ==
    WithValidators(type,
        DecodeNested(type, doc, 1, PlainResult(PlainFields(type, doc), st), path, dn))

\* many=True: the errors of an item are kept under its index
ItemResult(acc, i, d) ==
    Loaded(Append(acc.data, d.data), acc.errors \cup Under(IdxKey(i), d.errors),
           d.st, acc.made \cup d.made, acc.checked \cup d.checked)

RECURSIVE DecodeItems(_, _, _, _, _, _)
DecodeItems(type, docs, i, acc, path, dn) ==
    IF i > Len(docs) THEN acc
    ELSE DecodeItems(type, docs, i + 1,
                     ItemResult(acc, i,
                         DecodeOne(type, docs[i].m, acc.st, path \o <<IdxKey(i)>>, dn)),
                     path, dn)

Raised(obj, res) == [raised |-> TRUE, exc |-> obj, res |-> res]
Returned(res) == [raised |-> FALSE, exc |-> JNull, res |-> res]

\* a constructor that validates raises for an invalid new element
ConstructorRaises(m, cv) ==
    cv /\ ~m.fetched /\ IsExecutionElement(m.obj) /\ Invalid(m.obj)

\* post_load of a many=True load: an instance per item, in order
RECURSIVE MakeItems(_, _, _, _, _)
MadeItem(type, datas, i, acc, cv, m) ==
    IF ConstructorRaises(m, cv) THEN Raised(m.obj, acc)
    ELSE MakeItems(type, datas, i + 1,
                   Loaded(Append(acc.data, m.obj), {}, m.st, acc.made \cup {m.obj},
                          acc.checked),
                   cv)

MakeItems(type, datas, i, acc, cv) ==
    IF i > Len(datas) THEN Returned(acc)
    ELSE MadeItem(type, datas, i, acc, cv, MakeInstance(type, datas[i], acc.st))

MadeOne(d, cv, m) ==
    IF ConstructorRaises(m, cv) THEN Raised(m.obj, d)
    ELSE Returned(Loaded(m.obj, {}, m.st, d.made \cup {m.obj}, d.checked))

\* post_load runs only when nothing failed; otherwise the decoded data is
\* returned beside the errors
PostLoad(type, many, d, cv) ==
    IF d.errors # {} THEN Returned(d)
    ELSE IF many THEN MakeItems(type, d.data, 1, [d EXCEPT !.data = <<>>], cv)
    ELSE MadeOne(d, cv, MakeInstance(type, d.data, d.st))

\* ExecutionBaseSchema.load: marshmallow's load with the session attached
ExecutionBaseSchemaLoad(type, doc, many, st, cv, path, dn) ==
    PostLoad(type, many,
             IF many THEN DecodeItems(type, doc, 1, Loaded(<<>>, {}, st, {}, {}), path, dn)
                     ELSE DecodeOne(type, doc, st, path, dn),
             cv)

\* a validation pass that the first InvalidExecutionElement ends
RECURSIVE ValidateAll_first(_, _, _)
ValidateAll_first(all_objs, i, errors) ==
    IF i > Len(all_objs) THEN errors
    ELSE IF IsExecutionElement(all_objs[i]) /\ Invalid(all_objs[i])
    THEN {Err(<<InvalidName(all_objs[i])>>, msg) : msg \in InvalidErrors(all_objs[i])}
    ELSE ValidateAll_first(all_objs, i + 1, errors)

\* for obj in all_objs: obj.validate(); errors[e.name] = e.errors
RECURSIVE ValidateAll(_, _, _)
ValidateAll(all_objs, i, errors) ==
    IF i > Len(all_objs) THEN errors
    ELSE ValidateAll(all_objs, i + 1,
             IF IsExecutionElement(all_objs[i]) /\ Invalid(all_objs[i])
             THEN {e \in errors : Head(e.path) # InvalidName(all_objs[i])}
                    \cup {Err(<<InvalidName(all_objs[i])>>, msg) :
                            msg \in InvalidErrors(all_objs[i])}
             ELSE errors)

Elements(all_objs) ==
    {all_objs[i] : i \in {j \in DOMAIN all_objs : IsExecutionElement(all_objs[j])}}

\* except InvalidExecutionElement as e: objs = UnmarshalResult({}, e.errors)
Caught(r) ==
    IF r.raised
    THEN [r.res EXCEPT !.data = EmptyMap,
                       !.errors = {Err(<<>>, msg) : msg \in InvalidErrors(r.exc)}]
    ELSE r.res

AllObjs(many, data) == IF many THEN data ELSE <<data>>

\* if not objs.errors: validate every loaded element
Validated(many, objs) ==
    IF objs.errors # {} THEN objs
    ELSE [objs EXCEPT !.errors = ValidateAll(AllObjs(many, objs.data), 1, {}),
                      !.checked = @ \cup Elements(AllObjs(many, objs.data))]

\* ExecutionElementBaseSchema.load
ExecutionElementBaseSchemaLoad(type, doc, many, st, cv, path, dn) ==
    Validated(many, Caught(ExecutionBaseSchemaLoad(type, doc, many, st, cv, path, dn)))

ElementSchemas == {"Transform", "Condition", "ConditionalExpression", "Branch",
                   "Action", "Workflow", "Playbook"}

\* Schema(many=many).load(doc)
SchemaLoad(type, doc, many, st, cv, path, dn) ==
    IF type \in ElementSchemas
    THEN ExecutionElementBaseSchemaLoad(type, doc, many, st, cv, path, dn)
    ELSE ExecutionBaseSchemaLoad(type, doc, many, st, cv, path, dn).res

\* the calls of load a document leads to, in the order they finish
LoadCall(type, doc, many, path) ==
    [schema |-> type, doc |-> doc, many |-> many, path |-> path]

RECURSIVE Calls(_, _, _, _)

RECURSIVE NestedCalls(_, _, _, _)
NestedCalls(type, doc, k, path) ==
    IF k > Len(NestedFields(type)) THEN <<>>
    ELSE (IF NestedOk(doc, NestedFields(type)[k])
          THEN Calls(NestedFields(type)[k].schema,
                     IF NestedFields(type)[k].many
                        THEN doc[NestedFields(type)[k].key].xs
                        ELSE doc[NestedFields(type)[k].key].m,
                     NestedFields(type)[k].many,
                     path \o <<NestedFields(type)[k].key>>)
          ELSE <<>>)
         \o NestedCalls(type, doc, k + 1, path)

RECURSIVE ItemCalls(_, _, _, _)
ItemCalls(type, docs, i, path) ==
    IF i > Len(docs) THEN <<>>
    ELSE NestedCalls(type, docs[i].m, 1, path \o <<IdxKey(i)>>)
            \o ItemCalls(type, docs, i + 1, path)

Calls(type, doc, many, path) ==
    (IF many THEN ItemCalls(type, doc, 1, path) ELSE NestedCalls(type, doc, 1, path))
        \o <<LoadCall(type, doc, many, path)>>

(***************************************************************************)
(* Dumping                                                                 *)
(***************************************************************************)
skipvalues == {JNull, JList(<<>>), JList(<<JMap(EmptyMap)>>)}

remove_skip_values(data) ==
    [key \in {k \in DOMAIN data : data[k] \notin skipvalues} |-> data[key]]

DumpKeys(type) ==
    CASE type = "Argument" -> {"id", "name", "value", "reference", "selection"}
      [] type = "Position" -> {"id", "x", "y"}
      [] type = "Transform" -> {"id", "app_name", "action_name"}
      [] type = "Condition" -> {"id", "app_name", "action_name", "is_negated"}
      [] type = "ConditionalExpression" -> {"id", "operator", "is_negated"}
      [] type = "Branch" -> {"id", "source_id", "destination_id", "priority", "status"}
      [] type = "Action" -> {"id", "app_name", "action_name"}
      [] type = "Workflow" -> {"id", "name"}
      [] type = "Playbook" -> {"id", "name"}

\* default=value: what a field dumps when the element lacks the attribute
DumpDefault(type, key) ==
    CASE type = "Condition" /\ key = "is_negated" -> JBool(FALSE)
      [] type = "ConditionalExpression" /\ key = "is_negated" -> JBool(FALSE)
      [] type = "ConditionalExpression" /\ key = "operator" -> JStr(DefaultOperator)
      [] type = "Branch" /\ key = "priority" -> JInt(DefaultPriority)
      [] type = "Branch" /\ key = "status" -> JStr(DefaultStatus)
      [] OTHER -> JNull

\* Field.serialize
Serialize(type, obj, key) ==
    IF key \in DOMAIN obj THEN obj[key] ELSE DumpDefault(type, key)

RECURSIVE SchemaDump(_, _)

RECURSIVE DumpMany(_, _, _)
DumpMany(type, objs, i) ==
    IF i > Len(objs) THEN <<>>
    ELSE <<JMap(SchemaDump(type, objs[i]))>> \o DumpMany(type, objs, i + 1)

RECURSIVE DumpNested(_, _, _)
DumpNested(type, obj, k) ==
    IF k > Len(NestedFields(type)) THEN EmptyMap
    ELSE LET n == NestedFields(type)[k]
         IN  (n.key :> (IF n.many THEN JList(DumpMany(n.schema, obj[n.key], 1))
                        ELSE IF obj[n.key] = JNull THEN JNull
                        ELSE JMap(SchemaDump(n.schema, obj[n.key]))))
                @@ DumpNested(type, obj, k + 1)

\* Schema().dump(obj).data: the fields are serialized, then @post_dump
SchemaDump(type, obj) ==
    remove_skip_values([key \in DumpKeys(type) |-> Serialize(type, obj, key)]
                          @@ DumpNested(type, obj, 1))

\* element.__class__ is the key: the classes are looked up as they are
schema_lookup ==
    [Playbook |-> "Playbook", Workflow |-> "Workflow", Action |-> "Action",
     Branch |-> "Branch", ConditionalExpression |-> "ConditionalExpression",
     Condition |-> "Condition", Transform |-> "Transform", Position |-> "Position",
     Argument |-> "Argument"]

\* the class of an element; a subclass keeps the attributes of its base
ClassOf(element) == element.type

Dumped(raised, data) == [raised |-> raised, data |-> data]

\* a class that derives from an element class, and the class it derives from
Subclasses == [DelayedAction |-> "Action"]

\* a lookup that accepts the subclasses of the registered classes
dump_element_isinstance(element) ==
    IF ClassOf(element) \in DOMAIN schema_lookup
    THEN Dumped(FALSE, SchemaDump(schema_lookup[ClassOf(element)], element))
    ELSE IF ClassOf(element) \in DOMAIN Subclasses
    THEN Dumped(FALSE, SchemaDump(schema_lookup[Subclasses[ClassOf(element)]], element))
    ELSE Dumped(TRUE, EmptyMap)

dump_element(element) ==
    IF ClassOf(element) \in DOMAIN schema_lookup
    THEN Dumped(FALSE, SchemaDump(schema_lookup[ClassOf(element)], element))
    ELSE Dumped(TRUE, EmptyMap)

(***************************************************************************)
(* The documents and elements the entry points are called with             *)
(***************************************************************************)
MaxDepth == 4      \* child_expressions nest this deep below the root
Absent == [t |-> "absent"]
Opt(key, v) == IF v = Absent THEN EmptyMap ELSE key :> v

StoredArgumentId == JInt(1)
UnknownArgumentId == JInt(7)

ArgumentDocs ==
    {Opt("id", i) @@ Opt("name", n) @@ Opt("value", v) @@ Opt("reference", r)
        @@ Opt("selection", s) :
        i \in {Absent, StoredArgumentId, UnknownArgumentId},
        n \in {Absent, JStr("a")},
        v \in {Absent, JNull, JStr("v"), JInt(0), JList(<<>>), JMap(EmptyMap)},
        r \in {Absent, JNull, JStr(""), JStr("r")},
        s \in {Absent, JList(<<JInt(0)>>)}}

GoodArgument == [name |-> JStr("a"), value |-> JStr("v")]
RefArgument == [name |-> JStr("b"), reference |-> JStr("r")]
NeitherArgument == [name |-> JStr("a")]
BothArgument == [name |-> JStr("a"), value |-> JStr("v"), reference |-> JStr("r")]
NamelessArgument == [value |-> JStr("v")]

Items(docs) == JList([i \in DOMAIN docs |-> JMap(docs[i])])

ArgumentLists ==
    {Absent, Items(<<GoodArgument>>), Items(<<NeitherArgument>>),
     Items(<<BothArgument, RefArgument>>), Items(<<NeitherArgument, NamelessArgument>>)}

TransformDocs ==
    {[app_name |-> JStr("app"), action_name |-> JStr(a)] @@ Opt("arguments", args) :
        a \in {"act", UnknownAction}, args \in {Absent, Items(<<NeitherArgument>>)}}

StoredConditionId == "c1"

ConditionDocs ==
    {Opt("id", i) @@ Opt("app_name", app) @@ ("action_name" :> JStr(a))
        @@ Opt("arguments", args) @@ Opt("transforms", ts) @@ Opt("is_negated", neg) :
        i \in {Absent, JStr(StoredConditionId)},
        app \in {Absent, JStr("app")},
        a \in {"act", UnknownAction},
        args \in ArgumentLists,
        ts \in {Absent} \cup {Items(<<t>>) : t \in TransformDocs},
        neg \in {Absent, JBool(TRUE)}}

GoodCondition ==
    [app_name |-> JStr("app"), action_name |-> JStr("act"),
     arguments |-> Items(<<GoodArgument>>)]
BadCondition ==
    [app_name |-> JStr("app"), action_name |-> JStr("act"),
     arguments |-> Items(<<NeitherArgument>>)]
InvalidCondition ==
    [app_name |-> JStr("app"), action_name |-> JStr(UnknownAction)]
OtherInvalidCondition ==
    [app_name |-> JStr("app"), action_name |-> JStr(OtherUnknownAction)]

\* what one level of a ConditionalExpression document holds beside its children
Levels ==
    {[conditions |-> Items(<<BadCondition>>)],
     [conditions |-> Items(<<GoodCondition>>), operator |-> JStr("or")],
     [conditions |-> Items(<<BadCondition, GoodCondition>>), operator |-> JStr("nand")],
     [conditions |-> Items(<<InvalidCondition, GoodCondition, OtherInvalidCondition>>)]}

RECURSIVE ExpressionDocs(_)
ExpressionDocs(depth) ==
    IF depth = 0 THEN Levels
    ELSE Levels \cup
         {l @@ ("child_expressions" :> Items(<<e>>)) : l \in Levels, e \in ExpressionDocs(depth - 1)}

RootExpressionDocs ==
    ExpressionDocs(MaxDepth)
      \cup {[operator |-> JStr(o)] : o \in valid_operators \cup {"nand", "nor"}}
      \cup {EmptyMap, [operator |-> JNull], [is_negated |-> JBool(TRUE)]}
      \cup {[child_expressions |-> Items(<<a, b>>)] : a, b \in ExpressionDocs(1)}

SmallExpressionDocs ==
    {EmptyMap, [operator |-> JStr("xor"), conditions |-> Items(<<GoodCondition>>)],
     [conditions |-> Items(<<BadCondition>>)]}

PositionDocs == {[x |-> JInt(1), y |-> JInt(2)], [x |-> JInt(1)]}

ActionDocs ==
    {Opt("app_name", app) @@ ("action_name" :> JStr(a)) @@ Opt("arguments", args)
        @@ Opt("trigger", t) @@ Opt("position", p) :
        app \in {Absent, JStr("app")},
        a \in {"act", UnknownAction},
        args \in ArgumentLists,
        t \in {Absent, JNull} \cup {JMap(e) : e \in SmallExpressionDocs},
        p \in {Absent} \cup {JMap(d) : d \in PositionDocs}}

StoredBranchId == "b1"
UnknownBranchId == "b9"
StoredPriority == JInt(5)
OtherPriority == JInt(3)

BranchDocs ==
    {Opt("id", i) @@ Opt("source_id", src) @@ ("destination_id" :> JStr("t"))
        @@ Opt("priority", pr) @@ Opt("status", status) @@ Opt("condition", c) :
        i \in {Absent, JStr(StoredBranchId), JStr(UnknownBranchId)},
        src \in {Absent, JStr("s")},
        pr \in {Absent, JNull, StoredPriority, OtherPriority},
        status \in {Absent, JStr("Failure")},
        c \in {Absent, JMap(EmptyMap), JMap([operator |-> JStr("nand")])}}

StoredExpressionId == "e1"

DefaultsExpressionDocs ==
    {Opt("id", i) @@ Opt("operator", o) @@ Opt("is_negated", neg) @@ Opt("conditions", cs) :
        i \in {Absent, JStr(StoredExpressionId)},
        o \in {Absent, JStr("xor"), JStr("and")},
        neg \in {Absent, JBool(TRUE), JBool(FALSE)},
        cs \in {Absent, Items(<<[app_name |-> JStr("app"), action_name |-> JStr("act"),
                                 is_negated |-> JBool(TRUE)]>>),
                Items(<<[app_name |-> JStr("app"), action_name |-> JStr("act")]>>)}}

(***************************************************************************)
(* Elements to dump: object trees as the constructors leave them, with the *)
(* attributes set that a caller sets.                                      *)
(***************************************************************************)
NewArgument(name, value, reference) ==
    [Defaults("Argument") EXCEPT !.name = JStr(name), !.value = value,
                                 !.reference = reference]

PlainArgument == NewArgument("a", JStr("v"), JNull)

ArgumentObjects ==
    {NewArgument("a", v, JNull) :
        v \in {JStr("v"), JInt(0), JBool(FALSE), JList(<<JInt(0)>>), JList(<<>>),
               JList(<<JMap(EmptyMap)>>), JMap(EmptyMap)}}
      \cup {NewArgument("b", JNull, JStr("r"))}
      \cup {[Defaults("Argument") EXCEPT !.id = StoredArgumentId, !.name = JStr("old"),
                                         !.value = JStr("w")]}

ArgumentObjectLists ==
    {<<>>, <<PlainArgument>>, <<PlainArgument, NewArgument("b", JNull, JStr("r"))>>,
     <<NewArgument("a", JList(<<>>), JNull)>>}

NewTransform ==
    [Defaults("Transform") EXCEPT !.app_name = JStr("app"), !.action_name = JStr("act")]

ConditionObjects ==
    {[Defaults("Condition") EXCEPT !.app_name = JStr("app"), !.action_name = JStr("act"),
                                   !.arguments = args, !.transforms = ts,
                                   !.is_negated = JBool(neg)] :
        args \in ArgumentObjectLists, ts \in {<<>>, <<NewTransform>>}, neg \in BOOLEAN}

PlainCondition ==
    [Defaults("Condition") EXCEPT !.app_name = JStr("app"), !.action_name = JStr("act"),
                                  !.arguments = <<PlainArgument>>]

ExpressionObjects ==
    {[Defaults("ConditionalExpression") EXCEPT !.operator = JStr(o), !.conditions = cs,
                                               !.child_expressions = es] :
        o \in {"and", "xor"}, cs \in {<<>>, <<PlainCondition>>},
        es \in {<<>>, <<Defaults("ConditionalExpression")>>,
                <<[Defaults("ConditionalExpression") EXCEPT
                      !.conditions = <<PlainCondition>>, !.is_negated = JBool(TRUE)]>>}}

NewPosition == [Defaults("Position") EXCEPT !.x = JInt(1), !.y = JInt(2)]

ActionObjects ==
    {[Defaults("Action") EXCEPT !.app_name = JStr("app"), !.action_name = JStr("act"),
                                !.arguments = args, !.trigger = t, !.position = pos] :
        args \in ArgumentObjectLists,
        t \in {JNull, Defaults("ConditionalExpression")},
        pos \in {JNull, NewPosition}}

BareAction ==
    [Defaults("Action") EXCEPT !.app_name = JStr("app"), !.action_name = JStr("act")]

BranchObjects ==
    {[Defaults("Branch") EXCEPT !.source_id = JStr("s"), !.destination_id = JStr("t"),
                                !.priority = pr, !.status = JStr(status),
                                !.condition = c] :
        pr \in {JInt(DefaultPriority), StoredPriority},
        status \in {DefaultStatus, "Failure"},
        c \in {JNull, Defaults("ConditionalExpression")}}

WorkflowObjects ==
    {[Defaults("Workflow") EXCEPT !.name = JStr("w"), !.actions = as, !.branches = bs] :
        as \in {<<>>, <<BareAction>>},
        bs \in {<<>>, <<[Defaults("Branch") EXCEPT !.source_id = JStr("s"),
                                                   !.destination_id = JStr("t")]>>}}

PlaybookObjects ==
    {[Defaults("Playbook") EXCEPT !.name = JStr("p"), !.workflows = ws] :
        ws \in {<<>>} \cup {<<w>> : w \in WorkflowObjects}}

\* elements whose class is no key of the registry: a subclass of Action and
\* a class of another kind
UnregisteredObjects ==
    {[BareAction EXCEPT !.type = "DelayedAction"], [type |-> "Widget", id |-> JNull]}

DumpObjects ==
    ArgumentObjects \cup {NewTransform, NewPosition} \cup ConditionObjects
      \cup ExpressionObjects \cup ActionObjects \cup BranchObjects \cup WorkflowObjects
      \cup PlaybookObjects \cup UnregisteredObjects

\* elements whose defaulted attributes are set, at their defaults, or None
DefaultsObjects ==
    {[Defaults("Branch") EXCEPT !.source_id = JStr("s"), !.destination_id = JStr("t"),
                                !.priority = pr, !.status = status] :
        pr \in {JNull, JInt(DefaultPriority), StoredPriority},
        status \in {JNull, JStr(DefaultStatus), JStr("Failure")}}
      \cup {[Defaults("ConditionalExpression") EXCEPT !.operator = o, !.is_negated = neg] :
              o \in {JNull, JStr(DefaultOperator), JStr("or")},
              neg \in {JNull, JBool(FALSE), JBool(TRUE)}}
      \cup {[Defaults("Condition") EXCEPT !.app_name = JStr("app"),
                                          !.action_name = JStr("act"), !.is_negated = neg] :
              neg \in {JNull, JBool(FALSE), JBool(TRUE)}}

\* the session the schemas load into
InitStore ==
    (StoreKey("Argument", StoredArgumentId) :>
        [Defaults("Argument") EXCEPT !.id = StoredArgumentId, !.name = JStr("old"),
                                     !.value = JStr("w")])
    @@ (StoreKey("Condition", JStr(StoredConditionId)) :>
        [Defaults("Condition") EXCEPT !.id = JStr(StoredConditionId),
                                      !.app_name = JStr("app"), !.action_name = JStr("act")])
    @@ (StoreKey("Branch", JStr(StoredBranchId)) :>
        [Defaults("Branch") EXCEPT !.id = JStr(StoredBranchId), !.source_id = JStr("s"),
                                   !.destination_id = JStr("t"),
                                   !.priority = StoredPriority,
                                   !.status = JStr("Failure")])
    @@ (StoreKey("ConditionalExpression", JStr(StoredExpressionId)) :>
        [Defaults("ConditionalExpression") EXCEPT !.id = JStr(StoredExpressionId),
                                                  !.operator = JStr("or"),
                                                  !.is_negated = JBool(TRUE)])

(***************************************************************************)
(* The state machine: a caller calls an entry point and takes the result   *)
(***************************************************************************)
Init ==
    /\ store = InitStore
    /\ pc = "idle"
    /\ op = "none"
    /\ input = JNull
    /\ result = JNull
    /\ todo = <<>>
    /\ done = EmptyMap

\* Schema().load(doc) is called
Load(type, docs) ==
    /\ pc = "idle"
    /\ \E doc \in docs, cv \in BOOLEAN :
          /\ input' = [schema |-> type, doc |-> doc, cv |-> cv, before |-> store]
          /\ todo' = Calls(type, doc, FALSE, <<>>)
    /\ op' = "load"
    /\ pc' = "loading"
    /\ done' = EmptyMap
    /\ UNCHANGED <<store, result>>

Finished(r) ==
    [data |-> r.data, errors |-> r.errors, made |-> r.made, checked |-> r.checked]

Stepped(c, r) ==
    /\ store' = r.st
    /\ IF Len(todo) = 1
       THEN /\ pc' = "returned"
            /\ result' = Finished(r)
            /\ todo' = <<>>
            /\ done' = EmptyMap
       ELSE /\ done' = (c.path :> Finished(r)) @@ done
            /\ todo' = Tail(todo)
            /\ UNCHANGED <<pc, result>>

\* the next call of load runs: a nested schema's, or at last the root's
LoadStep ==
    /\ pc = "loading"
    /\ Stepped(Head(todo),
               SchemaLoad(Head(todo).schema, Head(todo).doc, Head(todo).many, store,
                          input.cv, Head(todo).path, done))
    /\ UNCHANGED <<op, input>>

LoadArgument == Load("Argument", ArgumentDocs)
LoadCondition == Load("Condition", ConditionDocs)
LoadExpression == Load("ConditionalExpression", RootExpressionDocs)
LoadAction == Load("Action", ActionDocs)
LoadBranch == Load("Branch", BranchDocs)
LoadDefaultsExpression == Load("ConditionalExpression", DefaultsExpressionDocs)

\* dump_element(element) is called
Dump(elements) ==
    /\ pc = "idle"
    /\ \E element \in elements :
          /\ input' = [element |-> element]
          /\ result' = dump_element(element)
    /\ op' = "dump"
    /\ pc' = "returned"
    /\ UNCHANGED <<store, todo, done>>

DumpElement == Dump(DumpObjects)
DumpDefaults == Dump(DefaultsObjects)

\* the document a dump returned is loaded with the schema of the element's class
LoadDumped ==
    /\ pc = "returned" /\ op = "dump" /\ ~result.raised
    /\ \E cv \in BOOLEAN :
          input' = [schema |-> schema_lookup[ClassOf(input.element)], doc |-> result.data,
                    cv |-> cv, before |-> store, element |-> input.element]
    /\ todo' = Calls(schema_lookup[ClassOf(input.element)], result.data, FALSE, <<>>)
    /\ op' = "reload"
    /\ pc' = "loading"
    /\ result' = JNull
    /\ done' = EmptyMap
    /\ UNCHANGED store

Return ==
    /\ pc = "returned"
    /\ pc' = "idle"
    /\ op' = "none"
    /\ input' = JNull
    /\ result' = JNull
    /\ UNCHANGED <<store, todo, done>>

Next == LoadExpression \/ LoadAction \/ LoadStep \/ Return
Spec == Init /\ [][Next]_vars

NextArgument == LoadArgument \/ LoadStep \/ Return
SpecArgument == Init /\ [][NextArgument]_vars

NextCondition == LoadCondition \/ LoadStep \/ Return
SpecCondition == Init /\ [][NextCondition]_vars

NextDefaults == LoadBranch \/ LoadDefaultsExpression \/ LoadStep \/ DumpDefaults \/ Return
SpecDefaults == Init /\ [][NextDefaults]_vars

NextDump == DumpElement \/ LoadDumped \/ LoadStep \/ Return
SpecDump == Init /\ [][NextDump]_vars

(***************************************************************************)
(* Properties                                                              *)
(***************************************************************************)
LoadReturned(type) ==
    pc = "returned" /\ op = "load" /\ input.schema = type

\* the data of a result is a constructed (or fetched) element
IsObject(data) == "type" \in DOMAIN data

Last(path) == path[Len(path)]

\* C1: a load returns an empty error map if and only if it returns an
\* object: errors never come with a constructed element.
C1_ErrorsIffNoObject ==
    (pc = "returned" /\ op = "load")
        => ((result.errors = {}) <=> IsObject(result.data))

C9_IdentifierUpdate ==
    LoadReturned("Argument") =>
        LET doc == input.doc
            known == "id" \in DOMAIN doc
                        /\ StoreKey("Argument", doc["id"]) \in DOMAIN input.before
        IN  /\ DOMAIN store = DOMAIN input.before
            /\ <<"id">> \notin Paths(result.errors)
            /\ result.errors # {} => store = input.before
            /\ (result.errors = {} /\ known) =>
                  /\ result.data = store[StoreKey("Argument", doc["id"])]
                  /\ \A k \in DOMAIN doc \ {"value", "reference"} : result.data[k] = doc[k]
                  /\ "value" \in DOMAIN doc => result.data.value = doc["value"]
                  /\ "value" \notin DOMAIN doc => result.data.reference = doc["reference"]
            /\ (result.errors = {} /\ ~known) =>
                  /\ store = input.before
                  /\ \A k \in DOMAIN doc : result.data[k] = doc[k]
                  /\ \A k \in DOMAIN result.data \ (DOMAIN doc \cup {"type"}) :
                        result.data[k] = JNull

C9_Witness ==
    /\ LoadReturned("Argument")
    /\ result.errors = {}
    /\ "id" \in DOMAIN input.doc /\ input.doc["id"] = StoredArgumentId
    /\ store # input.before
    /\ result.data = store[StoreKey("Argument", StoredArgumentId)]
    /\ result.data.name = JStr("a")

C4_WitnessAccepted ==
    /\ LoadReturned("ConditionalExpression")
    /\ input.doc = [operator |-> JStr("xor")]
    /\ result.errors = {}

(***************************************************************************)
(* The field-level violations of a document, found by reading the          *)
(* document: the path of every required field that is missing, of every    *)
(* operator outside the allowed set and of every Argument that breaks the  *)
(* value/reference rule.                                                   *)
(***************************************************************************)
ArgumentViolations(arg) ==
    (IF "name" \notin DOMAIN arg THEN {<<"name">>} ELSE {})
      \cup (IF ("value" \in DOMAIN arg)
                  = ("reference" \in DOMAIN arg /\ Truthy(arg["reference"]))
            THEN {<<"value">>} ELSE {})

ArgumentListViolations(doc) ==
    IF "arguments" \notin DOMAIN doc THEN {}
    ELSE UNION {{<<"arguments", IdxKey(i)>> \o p :
                    p \in ArgumentViolations(doc["arguments"].xs[i].m)} :
                i \in DOMAIN doc["arguments"].xs}

ActionableViolations(doc) ==
    (IF "app_name" \notin DOMAIN doc THEN {<<"app_name">>} ELSE {})
      \cup (IF "action_name" \notin DOMAIN doc THEN {<<"action_name">>} ELSE {})
      \cup ArgumentListViolations(doc)

RECURSIVE ExpressionViolations(_)
ExpressionViolations(doc) ==
    (IF "operator" \in DOMAIN doc
          /\ (doc["operator"] = JNull \/ doc["operator"].s \notin valid_operators)
     THEN {<<"operator">>} ELSE {})
      \cup (IF "conditions" \notin DOMAIN doc THEN {}
            ELSE UNION {{<<"conditions", IdxKey(i)>> \o p :
                            p \in ActionableViolations(doc["conditions"].xs[i].m)} :
                        i \in DOMAIN doc["conditions"].xs})
      \cup (IF "child_expressions" \notin DOMAIN doc THEN {}
            ELSE UNION {{<<"child_expressions", IdxKey(i)>> \o p :
                            p \in ExpressionViolations(doc["child_expressions"].xs[i].m)} :
                        i \in DOMAIN doc["child_expressions"].xs})

StructuralMsgs == {"Unknown action " \o a : a \in UnknownActions}

FieldErrors(E) == {e \in E : e.msg \notin StructuralMsgs}

C3_RoundTrip ==
    (pc = "returned" /\ op = "reload") =>
        /\ result.errors = {}
        /\ result.data = input.element

\* the declared defaults of a schema's fields
Declared(type) ==
    CASE type = "Branch" -> {"priority", "status"}
      [] type = "ConditionalExpression" -> {"operator", "is_negated"}
      [] type = "Condition" -> {"is_negated"}
      [] OTHER -> {}

Fetched == HasInstance(input.schema, input.doc, input.before)

\* dump writes a defaulted field as the element has it, or not at all
DumpInsertsNoDefault ==
    (pc = "returned" /\ op = "dump" /\ ~result.raised) =>
        \A f \in Declared(ClassOf(input.element)) :
            IF input.element[f] = JNull THEN f \notin DOMAIN result.data
            ELSE f \in DOMAIN result.data /\ result.data[f] = input.element[f]

\* C5 as stated: a successful load leaves every field with a declared
\* default at that default exactly when the document lacks the field, and
\* dump never inserts a default.
C5_DefaultWhenAbsent ==
    /\ (pc = "returned" /\ op = "load" /\ result.errors = {}) =>
          \A f \in Declared(input.schema) :
              result.data[f] = IF f \in DOMAIN input.doc THEN input.doc[f]
                               ELSE DumpDefault(input.schema, f)
    /\ DumpInsertsNoDefault

\* C5 as the code has it: a load that builds a new element leaves a field
\* with a declared default at that default exactly when the document lacks
\* it; a load that updates a stored element leaves an absent priority, status
\* or is_negated as stored and sets an absent operator to 'and'; a field
\* the document gives is taken as given; dump never inserts a default.
C5_DefaultOnNewInstance ==
    /\ (pc = "returned" /\ op = "load" /\ result.errors = {}) =>
          /\ \A f \in Declared(input.schema) :
                result.data[f] =
                    IF f \in DOMAIN input.doc THEN input.doc[f]
                    ELSE IF Fetched /\ f # "operator"
                    THEN input.before[StoreKey(input.schema, input.doc["id"])][f]
                    ELSE DumpDefault(input.schema, f)
          /\ (input.schema = "ConditionalExpression" /\ "conditions" \in DOMAIN input.doc) =>
                \A i \in DOMAIN result.data.conditions :
                    result.data.conditions[i].is_negated =
                        IF "is_negated" \in DOMAIN input.doc["conditions"].xs[i].m
                        THEN input.doc["conditions"].xs[i].m["is_negated"]
                        ELSE JBool(FALSE)
    /\ DumpInsertsNoDefault

C5_Witness ==
    /\ LoadReturned("Branch")
    /\ result.errors = {}
    /\ ~Fetched
    /\ DOMAIN input.doc \cap {"priority", "status"} = {}
    /\ result.data.priority = JInt(999)
    /\ result.data.status = JStr("Success")

C5_WitnessUpdate ==
    /\ LoadReturned("ConditionalExpression")
    /\ result.errors = {}
    /\ Fetched
    /\ DOMAIN input.doc \cap {"operator", "is_negated"} = {}
    /\ result.data.operator = JStr("and")
    /\ result.data.is_negated = JBool(TRUE)

C5_WitnessDump ==
    /\ pc = "returned" /\ op = "dump"
    /\ input.element.type = "Branch"
    /\ input.element.priority = JNull
    /\ "priority" \notin DOMAIN result.data

Empties == skipvalues \cup {JMap(EmptyMap)}

RECURSIVE Clean(_)
Clean(v) ==
    CASE v.t = "map" -> \A k \in DOMAIN v.m : v.m[k] \notin Empties /\ Clean(v.m[k])
      [] v.t = "list" -> \A i \in DOMAIN v.xs : Clean(v.xs[i])
      [] OTHER -> TRUE

\* C8: at no level of a document that dump_element returns does a key map
\* to null, an empty list, an empty mapping or a list of one empty mapping;
\* an Action without trigger, position and arguments dumps without those
\* keys.
C8_NoEmptyValues ==
    (pc = "returned" /\ op = "dump" /\ ~result.raised) =>
        /\ Clean(JMap(result.data))
        /\ (/\ input.element.type = "Action"
            /\ input.element.trigger = JNull
            /\ input.element.position = JNull
            /\ input.element.arguments = <<>>) =>
              DOMAIN result.data \cap {"trigger", "position", "arguments"} = {}

\* the nine element classes and the fields of the schema of each
ElementClasses ==
    {"Playbook", "Workflow", "Action", "Branch", "ConditionalExpression", "Condition",
     "Transform", "Position", "Argument"}

SchemaKeys(type) ==
    CASE type = "Argument" -> {"id", "name", "value", "reference", "selection"}
      [] type = "Position" -> {"id", "x", "y"}
      [] type = "Transform" -> {"id", "app_name", "action_name", "arguments"}
      [] type = "Condition" ->
            {"id", "app_name", "action_name", "is_negated", "arguments", "transforms"}
      [] type = "ConditionalExpression" ->
            {"id", "operator", "is_negated", "conditions", "child_expressions"}
      [] type = "Branch" ->
            {"id", "source_id", "destination_id", "priority", "status", "condition"}
      [] type = "Action" ->
            {"id", "app_name", "action_name", "arguments", "trigger", "position"}
      [] type = "Workflow" -> {"id", "name", "actions", "branches"}
      [] type = "Playbook" -> {"id", "name", "workflows"}

\* C10: dump_element looks the schema up by the class of the element as it
\* is: an element of one of the nine classes is dumped, without failing,
\* by the schema of that class, and an element of any other class, a
\* subclass of a registered one included, fails with a lookup error.
C10_ExactTypeLookup ==
    (pc = "returned" /\ op = "dump") =>
        /\ result.raised <=> input.element.type \notin ElementClasses
        /\ ~result.raised =>
              /\ DOMAIN result.data \subseteq SchemaKeys(input.element.type)
              /\ \A k \in DOMAIN result.data \ {"value", "selection"} :
                    result.data[k].t \in {"map", "list"} \/ result.data[k] = input.element[k]

C10_Witness ==
    /\ pc = "returned" /\ op = "dump"
    /\ input.element.type = "DelayedAction"
    /\ result.raised

C10_WitnessDumped ==
    /\ pc = "returned" /\ op = "dump"
    /\ input.element.type = "Playbook"
    /\ ~result.raised
    /\ "workflows" \in DOMAIN result.data

====
